---- MODULE Spec2Model ----
(***************************************************************************)
(* A model of app/main.py: the AI orchestrator that forwards /summarize    *)
(* requests to an Ollama backend found by probing a fixed candidate list,  *)
(* writes a usage record to OpenSearch and keeps Prometheus counters.      *)
(*                                                                         *)
(* The program runs on one asyncio event loop.  A coroutine runs without   *)
(* interruption from one suspending await to the next, so every action     *)
(* below is the code executed between two awaits on network I/O:           *)
(*   - client.get(.../api/tags)      main.py line 36 (one per candidate)   *)
(*   - client.post(.../api/generate) main.py line 58                       *)
(* Entering httpx.AsyncClient() (lines 35, 57) opens no connection and     *)
(* does not suspend; save_to_opensearch (line 136) is a blocking call.     *)
(* The reply to an await and the resumption of the coroutine are one step: *)
(* no other coroutine can observe the difference.                          *)
(***************************************************************************)
EXTENDS Naturals, Sequences, FiniteSets, TLC

\* ---------------------------------------------------------------- bounds

\* Number of /summarize requests that can be in flight at the same time.
NumHandlers == 2

\* ------------------------------------------------------ program constants

\* main.py 22-26: the ordered candidate list.
OLLAMA_URLS == << "http://localhost:11434",
                  "http://host.docker.internal:11434",
                  "http://ollama:11434" >>

Candidates == { OLLAMA_URLS[i] : i \in 1..Len(OLLAMA_URLS) }

\* Python's None.  It is a string so that it compares with the URLs.
None == "None"

\* `not x` for the values OLLAMA_URL takes: None or a candidate URL.
Falsy(x) == x = None \/ x = ""

\* The startup coroutine and the request handler slots.
Startup == 0

Handlers == 1..NumHandlers

Procs == {Startup} \cup Handlers

\* main.py 17: the labels used with OLLAMA_ERRORS.
ErrorTypes == {"http_error", "timeout", "connection", "other"}

\* ------------------------------------------------------------ environment

\* A candidate address is up (an Ollama serves it) or down (nothing serves
\* Ollama there).
BackendStates == {"up", "down"}

\* What GET /api/tags can yield at an address in state s (main.py 36): a 200
\* from an Ollama; otherwise a response with another status (something else
\* answers there) or an exception out of client.get (refused, timed out).
ProbeOutcomes(s) == IF s = "up" THEN {"ok"} ELSE {"bad_status", "raised"}

\* Bodies a backend sends with a 200.  kind is what response.json() makes of
\* the body: an object (fields: its key/value pairs), or a parse error.
Body(kind, fields) == [kind |-> kind, fields |-> fields]

Bodies == { Body("object", {<<"response", "X">>, <<"done", "true">>}),
            Body("object", {<<"done", "true">>}),
            Body("invalid", {}) }

NoBody == Body("none", {})

\* Non-success statuses a backend returns to POST /api/generate.
ErrorStatuses == {404, 500}

\* What the await on client.post (main.py 58-70) yields.
\*   response : a response arrived, with a status and a body
\*   timeout  : httpx.TimeoutException
\*   connect  : httpx.ConnectError
\*   fault    : any other exception (httpx.ReadError, ...)
\*   none     : no request was sent
Reply(kind, status, body) == [kind |-> kind, status |-> status, body |-> body]

NoReply == Reply("none", 0, NoBody)

\* ------------------------------------------------------------------ state

\* The Prometheus counters only ever receive .inc() and .observe(), and
\* nothing reads them: the model keeps, for the request in each slot, the
\* increments that request has made.
VARIABLES
  OLLAMA_URL,  \* main.py 46: the process-wide cached URL
  backend,     \* the state of every candidate address
  pc,          \* where each coroutine is suspended
  idx,         \* find_working_ollama_url: index of the candidate probed
  probes,      \* the earlier probes of the running locator: did each succeed
  url,         \* the URL the pending POST was built from (main.py 59)
  reply,       \* what the POST yielded
  resp,        \* the HTTP response of the handler
  rec,         \* what save_to_opensearch did for the request
  locRuns,     \* locator runs started by the pending call_ollama
  genSent,     \* generation requests sent by the request
  counted,     \* REQUEST_COUNT.inc() calls of the request (main.py 124)
  observed,    \* REQUEST_DURATION.observe() calls of the request (139)
  errs,        \* OLLAMA_ERRORS labels incremented by the request, in order
  lastGet,     \* the answer of GET /health or GET /, in the step it is sent
  connFailed   \* a connection failure happened and no generate() has
               \* started since

vars == << OLLAMA_URL, backend, pc, idx, probes, url, reply, resp, rec,
           locRuns, genSent, counted, observed, errs, lastGet, connFailed >>

\* The variables of the request in a slot, other than pc.
request == << url, reply, resp, rec, locRuns, genSent, counted, observed,
              errs >>

\* An HTTP response of /summarize: 200 with a summary, or an error with the
\* HTTPException's detail.
Response(status, summary, detail) ==
  [status |-> status, summary |-> summary, detail |-> detail]

NoResponse == Response(0, None, None)

NoGet == [ep |-> "none"]

\* ------------------------------------------------------------- exceptions

\* A raised exception: its class, the status_code of an HTTPException
\* (0 for the others) and str(e).
Exc(cls, status, msg) == [cls |-> cls, status |-> status, msg |-> msg]

NoExc == Exc("none", 0, None)

\* The base class of each exception class the code meets (httpx, fastapi,
\* json); "Exception" is the root.
BaseOf(cls) ==
  CASE cls = "TimeoutException" -> "TransportError"
    [] cls = "ConnectError"     -> "TransportError"
    [] cls = "ReadError"        -> "TransportError"
    [] cls = "TransportError"   -> "Exception"
    [] cls = "HTTPException"    -> "Exception"
    [] cls = "JSONDecodeError"  -> "Exception"
    [] cls = "AttributeError"   -> "Exception"
    [] cls = "OpenSearchError"  -> "Exception"
    [] OTHER                    -> "Exception"

\* isinstance(e, cls), as an except clause tests it.
RECURSIVE IsSubclass(_, _)
IsSubclass(c, cls) ==
  IF c = cls THEN TRUE
  ELSE IF c = "Exception" THEN FALSE
  ELSE IsSubclass(BaseOf(c), cls)

IsInstance(e, cls) == e.cls # "none" /\ IsSubclass(e.cls, cls)

\* fastapi's HTTPException(status_code, detail); str(e) is "status: detail".
HTTPException(status, detail) ==
  Exc("HTTPException", status, ToString(status) \o ": " \o detail)

\* ---------------------------------------------------------- call_ollama

\* Mutant of dict_get: the default is forgotten, as with result.get(key).
dict_get_NoDefault(fields, key, default) ==
  IF \E p \in fields : p[1] = key
  THEN (CHOOSE p \in fields : p[1] = key)[2]
  ELSE None

\* main.py 77: result.get(key, default) on the parsed object.
dict_get(fields, key, default) ==
  IF \E p \in fields : p[1] = key
  THEN (CHOOSE p \in fields : p[1] = key)[2]
  ELSE default

\* What a block of call_ollama yields: the exception it raises (NoExc when
\* it returns), the detail of a raised HTTPException, the returned text,
\* the OLLAMA_ERRORS labels it incremented, in order, and whether it reset
\* OLLAMA_URL.
Yield(exc, detail, result, incs, clear) ==
  [exc |-> exc, detail |-> detail, result |-> result, errs |-> incs,
   clear |-> clear]

\* main.py 56-77: the body of the try, once the POST has yielded r.
call_ollama_try(r) ==
  IF r.kind = "timeout"
  THEN Yield(Exc("TimeoutException", 0, "timed out"), None, None, <<>>, FALSE)
  ELSE IF r.kind = "connect"
  THEN Yield(Exc("ConnectError", 0, "connection refused"), None, None, <<>>,
             FALSE)
  ELSE IF r.kind = "fault"
  THEN Yield(Exc("ReadError", 0, "read error"), None, None, <<>>, FALSE)
  ELSE IF r.status # 200
  THEN Yield(HTTPException(r.status, "Ollama API error: oops"),
             "Ollama API error: oops", None, <<"http_error">>, FALSE)
  ELSE IF r.body.kind = "invalid"
  THEN Yield(Exc("JSONDecodeError", 0, "Expecting value"), None, None, <<>>,
             FALSE)
  ELSE IF r.body.kind # "object"
  THEN Yield(Exc("AttributeError", 0, "no attribute get"), None, None, <<>>,
             FALSE)
  ELSE Yield(NoExc, None, dict_get(r.body.fields, "response", ""), <<>>,
             FALSE)

\* Mutant of call_ollama_except: the connection-error clause does not reset
\* OLLAMA_URL.
call_ollama_except_KeepsUrl(t) ==
  IF t.exc = NoExc THEN t
  ELSE IF IsInstance(t.exc, "TimeoutException")
  THEN Yield(HTTPException(504, "Ollama request timeout"),
             "Ollama request timeout", None, t.errs \o <<"timeout">>, FALSE)
  ELSE IF IsInstance(t.exc, "ConnectError")
  THEN Yield(HTTPException(503, "Cannot connect to Ollama"),
             "Cannot connect to Ollama", None, t.errs \o <<"connection">>,
             FALSE)
  ELSE IF IsInstance(t.exc, "Exception")
  THEN Yield(HTTPException(500, "Ollama API error: " \o t.exc.msg),
             "Ollama API error: " \o t.exc.msg, None, t.errs \o <<"other">>,
             FALSE)
  ELSE t

\* Mutant of call_ollama_except: the timeout clause resets OLLAMA_URL too.
call_ollama_except_TimeoutClears(t) ==
  IF t.exc = NoExc THEN t
  ELSE IF IsInstance(t.exc, "TimeoutException")
  THEN Yield(HTTPException(504, "Ollama request timeout"),
             "Ollama request timeout", None, t.errs \o <<"timeout">>, TRUE)
  ELSE IF IsInstance(t.exc, "ConnectError")
  THEN Yield(HTTPException(503, "Cannot connect to Ollama"),
             "Cannot connect to Ollama", None, t.errs \o <<"connection">>,
             TRUE)
  ELSE IF IsInstance(t.exc, "Exception")
  THEN Yield(HTTPException(500, "Ollama API error: " \o t.exc.msg),
             "Ollama API error: " \o t.exc.msg, None, t.errs \o <<"other">>,
             FALSE)
  ELSE t

\* main.py 79-90: the except clauses, tried in order on what the try body
\* yielded.  An exception raised inside a clause is not caught by a later
\* clause of the same try.
call_ollama_except(t) ==
  IF t.exc = NoExc THEN t
  ELSE IF IsInstance(t.exc, "TimeoutException")
  THEN Yield(HTTPException(504, "Ollama request timeout"),
             "Ollama request timeout", None, t.errs \o <<"timeout">>, FALSE)
  ELSE IF IsInstance(t.exc, "ConnectError")
  THEN Yield(HTTPException(503, "Cannot connect to Ollama"),
             "Cannot connect to Ollama", None, t.errs \o <<"connection">>,
             TRUE)
  ELSE IF IsInstance(t.exc, "Exception")
  THEN Yield(HTTPException(500, "Ollama API error: " \o t.exc.msg),
             "Ollama API error: " \o t.exc.msg, None, t.errs \o <<"other">>,
             FALSE)
  ELSE t

\* main.py 56-90: call_ollama from the moment the POST has yielded r.
call_ollama(r) == call_ollama_except(call_ollama_try(r))

\* main.py 53-54: the locator found nothing.
call_ollama_unavailable ==
  Yield(HTTPException(503, "Ollama not available"), "Ollama not available",
        None, <<>>, FALSE)

\* --------------------------------------------------- save_to_opensearch

\* Mutant of save_to_opensearch: no try/except around the index call.
save_to_opensearch_Raises(store) ==
  [exc |-> IF store = "indexed" THEN NoExc
           ELSE Exc("OpenSearchError", 0, "ConnectionError"),
   saved |-> store = "indexed"]

\* main.py 93-106: store is what the document store does with the index
\* call ("indexed", or "unreachable": the call raises).  The function
\* catches every Exception: it always returns.
save_to_opensearch(store) ==
  [exc |-> NoExc, saved |-> store = "indexed"]

StoreOutcomes == {"indexed", "unreachable"}

\* ------------------------------------------------------- summarize_text

\* Mutant of summarize_text: the duration is observed only when the usage
\* record was written.
summarize_text_ObserveOnlyIfSaved(c, store) ==
  IF IsInstance(c.exc, "HTTPException")
  THEN [resp |-> Response(c.exc.status, None, c.detail), rec |-> "none",
        observed |-> 0]
  ELSE IF c.exc # NoExc
  THEN [resp |-> Response(500, None, c.exc.msg), rec |-> "none",
        observed |-> 0]
  ELSE LET s == save_to_opensearch(store) IN
       IF s.exc # NoExc
       THEN [resp |-> Response(500, None, s.exc.msg), rec |-> "raised",
             observed |-> 0]
       ELSE [resp |-> Response(200, c.result, None),
             rec |-> IF s.saved THEN "saved" ELSE "failed",
             observed |-> IF s.saved THEN 1 ELSE 0]

\* Mutant of summarize_text: the usage record is written for a failed
\* generation as well.
summarize_text_SavesOnError(c, store) ==
  IF IsInstance(c.exc, "HTTPException")
  THEN [resp |-> Response(c.exc.status, None, c.detail),
        rec |-> IF save_to_opensearch(store).saved THEN "saved" ELSE "failed",
        observed |-> 0]
  ELSE IF c.exc # NoExc
  THEN [resp |-> Response(500, None, c.exc.msg), rec |-> "none",
        observed |-> 0]
  ELSE LET s == save_to_opensearch(store) IN
       IF s.exc # NoExc
       THEN [resp |-> Response(500, None, s.exc.msg), rec |-> "raised",
             observed |-> 0]
       ELSE [resp |-> Response(200, c.result, None),
             rec |-> IF s.saved THEN "saved" ELSE "failed",
             observed |-> 1]

\* main.py 132-147: what summarize_text makes of call_ollama's yield c when
\* the document store behaves as store: the HTTP response, what became of
\* the usage record and the number of durations observed.
summarize_text(c, store) ==
  IF IsInstance(c.exc, "HTTPException")
  THEN [resp |-> Response(c.exc.status, None, c.detail), rec |-> "none",
        observed |-> 0]
  ELSE IF c.exc # NoExc
  THEN [resp |-> Response(500, None, c.exc.msg), rec |-> "none",
        observed |-> 0]
  ELSE LET s == save_to_opensearch(store) IN
       IF s.exc # NoExc
       THEN [resp |-> Response(500, None, s.exc.msg), rec |-> "raised",
             observed |-> 0]
       ELSE [resp |-> Response(200, c.result, None),
             rec |-> IF s.saved THEN "saved" ELSE "failed",
             observed |-> 1]

\* ------------------------------------------------ find_working_ollama_url

\* Mutant of ProbeSucceeds: the status is not looked at, any response counts.
ProbeSucceeds_AnyResponse(o) == o # "raised"

\* main.py 37: the probe counts when the response's status is 200.
ProbeSucceeds(o) == o = "ok"

\* Mutant of find_working_ollama_url: after the loop the last candidate is
\* returned instead of None.
find_working_ollama_url_ReturnsLast(i, o) ==
  IF ProbeSucceeds(o) THEN [done |-> TRUE, ret |-> OLLAMA_URLS[i]]
  ELSE IF i < Len(OLLAMA_URLS) THEN [done |-> FALSE, ret |-> None]
  ELSE [done |-> TRUE, ret |-> OLLAMA_URLS[i]]

\* main.py 33-44: one turn of the loop, on candidate number i whose probe
\* yielded o: the loop returns the candidate, goes on to the next one, or
\* ends and the function returns None.
find_working_ollama_url(i, o) ==
  IF ProbeSucceeds(o) THEN [done |-> TRUE, ret |-> OLLAMA_URLS[i]]
  ELSE IF i < Len(OLLAMA_URLS) THEN [done |-> FALSE, ret |-> None]
  ELSE [done |-> TRUE, ret |-> None]

\* What the history keeps of a probe's outcome: whether it was a 200.
Probed(o) == IF o = "ok" THEN "ok" ELSE "failed"

\* The outcomes the probe that coroutine p is waiting for can have.
ProbesNow(p) == ProbeOutcomes(backend[OLLAMA_URLS[idx[p]]])

\* ------------------------------------------------------------------- Init

\* The process has been loaded and startup_event waits for its first probe.
Init ==
  /\ OLLAMA_URL = None
  /\ backend \in [Candidates -> BackendStates]
  /\ pc = [p \in Procs |-> IF p = Startup THEN "probe" ELSE "idle"]
  /\ idx = [p \in Procs |-> IF p = Startup THEN 1 ELSE 0]
  /\ probes = [p \in Procs |-> <<>>]
  /\ url = [h \in Handlers |-> None]
  /\ reply = [h \in Handlers |-> NoReply]
  /\ resp = [h \in Handlers |-> NoResponse]
  /\ rec = [h \in Handlers |-> "none"]
  /\ locRuns = [h \in Handlers |-> 0]
  /\ genSent = [h \in Handlers |-> 0]
  /\ counted = [h \in Handlers |-> 0]
  /\ observed = [h \in Handlers |-> 0]
  /\ errs = [h \in Handlers |-> <<>>]
  /\ lastGet = NoGet
  /\ connFailed = FALSE

\* ---------------------------------------------------------------- actions

\* The environment: the address u goes to state s.
BackendChange(u, s) ==
  /\ backend[u] # s
  /\ backend' = [backend EXCEPT ![u] = s]
  /\ lastGet' = NoGet
  /\ UNCHANGED << OLLAMA_URL, pc, idx, probes, request, connFailed >>

\* main.py 33-41: a probe of coroutine p (startup or handler) yields o, which
\* is no success, and the loop goes on to the next candidate.
ProbeNext(p, o) ==
  /\ pc[p] = "probe"
  /\ o \in ProbesNow(p)
  /\ ~find_working_ollama_url(idx[p], o).done
  /\ idx' = [idx EXCEPT ![p] = @ + 1]
  /\ probes' = [probes EXCEPT ![p] = Append(@, Probed(o))]
  /\ lastGet' = NoGet
  /\ UNCHANGED << OLLAMA_URL, backend, pc, request, connFailed >>

\* main.py 109-119: the last probe of the startup locator yields o; the
\* locator returns to startup_event, which caches the URL when there is one.
\* Requests are served once startup has ended.
startup_event(o) ==
  /\ pc[Startup] = "probe"
  /\ o \in ProbesNow(Startup)
  /\ find_working_ollama_url(idx[Startup], o).done
  /\ LET found == find_working_ollama_url(idx[Startup], o).ret IN
       OLLAMA_URL' = IF ~Falsy(found) THEN found ELSE OLLAMA_URL
  /\ pc' = [pc EXCEPT ![Startup] = "done"]
  /\ idx' = [idx EXCEPT ![Startup] = 0]
  /\ probes' = [probes EXCEPT ![Startup] = <<>>]
  /\ lastGet' = NoGet
  /\ UNCHANGED << backend, request, connFailed >>

\* main.py 122-133, 48-70: a /summarize request arrives in slot h and runs
\* to its first await: the first probe when OLLAMA_URL is absent, the POST
\* otherwise.
Start(h) ==
  /\ pc[Startup] = "done"
  /\ pc[h] = "idle"
  /\ counted' = [counted EXCEPT ![h] = @ + 1]
  /\ connFailed' = FALSE
  /\ IF Falsy(OLLAMA_URL)
     THEN /\ pc' = [pc EXCEPT ![h] = "probe"]
          /\ idx' = [idx EXCEPT ![h] = 1]
          /\ locRuns' = [locRuns EXCEPT ![h] = @ + 1]
          /\ UNCHANGED << url, genSent >>
     ELSE /\ pc' = [pc EXCEPT ![h] = "post"]
          /\ url' = [url EXCEPT ![h] = OLLAMA_URL]
          /\ genSent' = [genSent EXCEPT ![h] = @ + 1]
          /\ UNCHANGED << idx, locRuns >>
  /\ lastGet' = NoGet
  /\ UNCHANGED << OLLAMA_URL, backend, probes, reply, resp, rec, observed,
                  errs >>

\* The end of call_ollama in slot h with yield c, and the rest of
\* summarize_text (main.py 132-147), the document store behaving as store.
Finish(h, c, store) ==
  LET s == summarize_text(c, store) IN
    /\ errs' = [errs EXCEPT ![h] = @ \o c.errs]
    /\ observed' = [observed EXCEPT ![h] = @ + s.observed]
    /\ resp' = [resp EXCEPT ![h] = s.resp]
    /\ rec' = [rec EXCEPT ![h] = s.rec]
    /\ url' = [url EXCEPT ![h] = None]
    /\ locRuns' = [locRuns EXCEPT ![h] = 0]
    /\ pc' = [pc EXCEPT ![h] = "done"]

\* Mutant of LazyLocated: the result of the locator is not looked at (no
\* main.py 53-54) and the POST is built from OLLAMA_URL whatever it is.
LazyLocated_NoRecheck(h, o, store) ==
  /\ h \in Handlers
  /\ pc[h] = "probe"
  /\ o \in ProbesNow(h)
  /\ find_working_ollama_url(idx[h], o).done
  /\ idx' = [idx EXCEPT ![h] = 0]
  /\ probes' = [probes EXCEPT ![h] = <<>>]
  /\ OLLAMA_URL' = find_working_ollama_url(idx[h], o).ret
  /\ pc' = [pc EXCEPT ![h] = "post"]
  /\ url' = [url EXCEPT ![h] = OLLAMA_URL']
  /\ genSent' = [genSent EXCEPT ![h] = @ + 1]
  /\ lastGet' = NoGet
  /\ UNCHANGED << backend, reply, resp, rec, observed, errs, locRuns, counted,
                  connFailed >>

\* main.py 52-70: the last probe of the locator called in slot h yields o and
\* the locator returns to call_ollama.  The result is assigned to OLLAMA_URL,
\* whatever it is; without a URL the call raises 503, with one the POST is
\* built from OLLAMA_URL and sent.
LazyLocated(h, o, store) ==
  /\ h \in Handlers
  /\ pc[h] = "probe"
  /\ o \in ProbesNow(h)
  /\ find_working_ollama_url(idx[h], o).done
  /\ idx' = [idx EXCEPT ![h] = 0]
  /\ probes' = [probes EXCEPT ![h] = <<>>]
  /\ OLLAMA_URL' = find_working_ollama_url(idx[h], o).ret
  /\ IF Falsy(OLLAMA_URL')
     THEN /\ Finish(h, call_ollama_unavailable, store)
          /\ UNCHANGED genSent
     ELSE /\ pc' = [pc EXCEPT ![h] = "post"]
          /\ url' = [url EXCEPT ![h] = OLLAMA_URL']
          /\ genSent' = [genSent EXCEPT ![h] = @ + 1]
          /\ UNCHANGED << resp, rec, observed, errs, locRuns >>
  /\ lastGet' = NoGet
  /\ UNCHANGED << backend, reply, counted, connFailed >>

\* main.py 56-90, 132-147: the POST of slot h yields r; call_ollama and
\* summarize_text run to the end of the request.
PostYield(h, r, store) ==
  /\ pc[h] = "post"
  /\ reply' = [reply EXCEPT ![h] = r]
  /\ OLLAMA_URL' = IF call_ollama(r).clear THEN None ELSE OLLAMA_URL
  /\ connFailed' = (connFailed \/ r.kind = "connect")
  /\ Finish(h, call_ollama(r), store)
  /\ lastGet' = NoGet
  /\ UNCHANGED << backend, idx, probes, genSent, counted >>

\* An Ollama answers the POST with status 200 and body b.
PostOk(h, b, store) ==
  /\ pc[h] = "post"
  /\ backend[url[h]] = "up"
  /\ PostYield(h, Reply("response", 200, b), store)

\* The POST is answered with the non-success status s: by an Ollama (unknown
\* model, internal error) or by whatever else serves the address.
PostStatus(h, s, store) ==
  /\ pc[h] = "post"
  /\ PostYield(h, Reply("response", s, NoBody), store)

\* The POST exceeds the 120 s timeout (httpx.TimeoutException).
PostTimeout(h, store) ==
  /\ pc[h] = "post"
  /\ PostYield(h, Reply("timeout", 0, NoBody), store)

\* Mutant of PostConnectError: on a connection error the call resets
\* OLLAMA_URL and tries again, starting with the locator.
PostConnectError_Retry(h, store) ==
  /\ pc[h] = "post"
  /\ backend[url[h]] = "down"
  /\ OLLAMA_URL' = None
  /\ connFailed' = TRUE
  /\ pc' = [pc EXCEPT ![h] = "probe"]
  /\ idx' = [idx EXCEPT ![h] = 1]
  /\ url' = [url EXCEPT ![h] = None]
  /\ locRuns' = [locRuns EXCEPT ![h] = @ + 1]
  /\ errs' = [errs EXCEPT ![h] = @ \o <<"connection">>]
  /\ lastGet' = NoGet
  /\ UNCHANGED << backend, probes, reply, resp, rec, genSent, counted,
                  observed >>

\* The connection for the POST cannot be made (httpx.ConnectError).
PostConnectError(h, store) ==
  /\ pc[h] = "post"
  /\ backend[url[h]] = "down"
  /\ PostYield(h, Reply("connect", 0, NoBody), store)

\* The POST fails in another way (httpx.ReadError, ...).
PostFault(h, store) ==
  /\ pc[h] = "post"
  /\ PostYield(h, Reply("fault", 0, NoBody), store)

\* The framework has sent the response of slot h; the slot is free again.
Respond(h) ==
  /\ pc[h] = "done"
  /\ pc' = [pc EXCEPT ![h] = "idle"]
  /\ url' = [url EXCEPT ![h] = None]
  /\ reply' = [reply EXCEPT ![h] = NoReply]
  /\ resp' = [resp EXCEPT ![h] = NoResponse]
  /\ rec' = [rec EXCEPT ![h] = "none"]
  /\ locRuns' = [locRuns EXCEPT ![h] = 0]
  /\ genSent' = [genSent EXCEPT ![h] = 0]
  /\ counted' = [counted EXCEPT ![h] = 0]
  /\ observed' = [observed EXCEPT ![h] = 0]
  /\ errs' = [errs EXCEPT ![h] = <<>>]
  /\ lastGet' = NoGet
  /\ UNCHANGED << OLLAMA_URL, backend, idx, probes, connFailed >>

\* Mutant of health: the handler probes the cached address and drops it from
\* the cache when it does not answer.
health_Probing ==
  /\ pc[Startup] = "done"
  /\ LET ollama_healthy == ~Falsy(OLLAMA_URL) /\ backend[OLLAMA_URL] = "up" IN
       /\ OLLAMA_URL' = IF ollama_healthy THEN OLLAMA_URL ELSE None
       /\ lastGet' = [ep |-> "/health",
                      status |-> IF ollama_healthy THEN "healthy"
                                                   ELSE "degraded",
                      ollama |-> IF ollama_healthy THEN "healthy"
                                                   ELSE "unavailable",
                      ollama_url |-> IF ollama_healthy THEN OLLAMA_URL
                                                       ELSE None,
                      opensearch |-> "connected"]
  /\ UNCHANGED << backend, pc, idx, probes, request, connFailed >>

\* main.py 149-157: GET /health.
health ==
  /\ pc[Startup] = "done"
  /\ LET ollama_healthy == ~Falsy(OLLAMA_URL) IN
       lastGet' = [ep |-> "/health",
                   status |-> IF ollama_healthy THEN "healthy" ELSE "degraded",
                   ollama |-> IF ollama_healthy THEN "healthy"
                                                ELSE "unavailable",
                   ollama_url |-> IF ollama_healthy THEN OLLAMA_URL ELSE None,
                   opensearch |-> "connected"]
  /\ UNCHANGED << OLLAMA_URL, backend, pc, idx, probes, request, connFailed >>

\* main.py 159-173: GET /.
root ==
  /\ pc[Startup] = "done"
  /\ LET ollama_healthy == ~Falsy(OLLAMA_URL) IN
       lastGet' = [ep |-> "/",
                   status |-> IF ollama_healthy THEN "ready"
                                                ELSE "waiting for Ollama",
                   ollama_url |-> OLLAMA_URL]
  /\ UNCHANGED << OLLAMA_URL, backend, pc, idx, probes, request, connFailed >>

\* ---------------------------------------------------------- specification

Outcomes == {"ok", "bad_status", "raised"}

\* The steps of startup, of the /summarize requests and of the environment.
SummarizeNext ==
  \/ \E u \in Candidates, s \in BackendStates : BackendChange(u, s)
  \/ \E p \in Procs, o \in Outcomes : ProbeNext(p, o)
  \/ \E o \in Outcomes : startup_event(o)
  \/ \E h \in Handlers : Start(h)
  \/ \E h \in Handlers, o \in Outcomes, store \in StoreOutcomes :
       LazyLocated(h, o, store)
  \/ \E h \in Handlers, b \in Bodies, store \in StoreOutcomes :
       PostOk(h, b, store)
  \/ \E h \in Handlers, s \in ErrorStatuses, store \in StoreOutcomes :
       PostStatus(h, s, store)
  \/ \E h \in Handlers, store \in StoreOutcomes : PostTimeout(h, store)
  \/ \E h \in Handlers, store \in StoreOutcomes : PostConnectError(h, store)
  \/ \E h \in Handlers, store \in StoreOutcomes : PostFault(h, store)
  \/ \E h \in Handlers : Respond(h)

Next ==
  \/ SummarizeNext
  \/ health
  \/ root

\* The whole program.
Spec == Init /\ [][Next]_vars

\* The program without the two GET handlers.  They write lastGet and nothing
\* else, and nothing reads lastGet: a behaviour of Spec is a behaviour of
\* SummarizeSpec once its GET steps are taken out.  The claims that do not
\* speak of the GET handlers are checked under it.
SummarizeSpec == Init /\ [][SummarizeNext]_vars

\* The environment of the recovery claim: an address that is up answers the
\* POST with a 200 and a JSON object, an address that is down refuses the
\* connection; addresses go up and down freely.  GET /health and GET / are
\* left out: they change nothing a request reads.
LiveBodies == { b \in Bodies : b.kind = "object" }

LiveNext ==
  \/ \E u \in Candidates, s \in BackendStates : BackendChange(u, s)
  \/ \E p \in Procs, o \in Outcomes : ProbeNext(p, o)
  \/ \E o \in Outcomes : startup_event(o)
  \/ \E h \in Handlers : Start(h)
  \/ \E h \in Handlers, o \in Outcomes, store \in StoreOutcomes :
       LazyLocated(h, o, store)
  \/ \E h \in Handlers, b \in LiveBodies, store \in StoreOutcomes :
       PostOk(h, b, store)
  \/ \E h \in Handlers, store \in StoreOutcomes : PostConnectError(h, store)
  \/ \E h \in Handlers : Respond(h)

\* A step of startup_event, and a step of the request in slot h.
StartupStep ==
  \/ \E o \in Outcomes : ProbeNext(Startup, o)
  \/ \E o \in Outcomes : startup_event(o)

HandlerStep(h) ==
  \/ Start(h)
  \/ \E o \in Outcomes : ProbeNext(h, o)
  \/ \E o \in Outcomes, store \in StoreOutcomes : LazyLocated(h, o, store)
  \/ \E b \in LiveBodies, store \in StoreOutcomes : PostOk(h, b, store)
  \/ \E store \in StoreOutcomes : PostConnectError(h, store)
  \/ Respond(h)

\* The event loop resumes a coroutine once the I/O it awaits has ended, and
\* every await of the code ends (the probe after 5 s at most, the POST after
\* 120 s at most); requests keep arriving in every slot.
Fairness ==
  /\ WF_vars(StartupStep)
  /\ \A h \in Handlers : WF_vars(HandlerStep(h))

LiveSpec == Init /\ [][LiveNext]_vars /\ Fairness

\* ------------------------------------------------------------------ claims

\* The step in which the coroutine p moves.
Moves(p) == pc'[p] # pc[p] \/ idx'[p] # idx[p]

\* The step in which the locator run of coroutine p returns.
LocatorReturns(p) == pc[p] = "probe" /\ pc'[p] # "probe"

\* Every earlier probe of the locator run of p failed, and every candidate
\* before the one being probed has been probed.
EarlierAllFailed(p) ==
  /\ Len(probes[p]) = idx[p] - 1
  /\ \A j \in 1..Len(probes[p]) : probes[p][j] = "failed"

\* The step in which the POST of slot h yields an outcome of this kind.
PostYields(h, kind) == pc[h] = "post" /\ reply'[h].kind = kind

\* The step in which a request arrives in slot h.
Arrives(h) == pc[h] = "idle" /\ pc'[h] # "idle"

\* C1: for every non-success status s the backend returns to the generation
\* request, /summarize answers with HTTP status s: the backend's status is
\* passed through unchanged.
C1_BackendStatusPassedThrough ==
  \A h \in Handlers :
    (pc[h] = "done" /\ reply[h].kind = "response" /\ reply[h].status # 200)
      => resp[h].status = reply[h].status

\* C2: whenever a locator run returns, what it returns is the candidate of
\* lowest index whose probe succeeded: the candidate it returns answered its
\* probe with a 200 and every candidate before it was probed and failed; it
\* returns None only when every candidate was probed and failed.  The states
\* of the candidates after it are free.
C2_LocatorReturnsFirstLive ==
  [][\A p \in Procs :
       LocatorReturns(p) =>
         /\ EarlierAllFailed(p)
         /\ IF backend[OLLAMA_URLS[idx[p]]] = "up"
            THEN OLLAMA_URL' = OLLAMA_URLS[idx[p]]
            ELSE idx[p] = Len(OLLAMA_URLS) /\ OLLAMA_URL' = None]_vars

\* C2 witness: a lazy locator run has returned the second candidate, the
\* first one being down and the third one up as well.
C2_Witness ==
  \E h \in Handlers :
    /\ pc[h] = "post" /\ locRuns[h] = 1 /\ url[h] = OLLAMA_URLS[2]
    /\ OLLAMA_URL = OLLAMA_URLS[2]
    /\ backend[OLLAMA_URLS[1]] = "down"
    /\ backend[OLLAMA_URLS[3]] = "up"

\* C3: when a request that found no cached URL has probed every candidate
\* without success, the locator returns None without raising, OLLAMA_URL stays
\* absent, the request ends with a 503 "Ollama not available" and it has sent
\* no generation request.
C3_UnavailableWithoutGeneration ==
  [][\A h \in Handlers :
       ( /\ pc[h] = "probe" /\ Moves(h)
         /\ idx[h] = Len(OLLAMA_URLS)
         /\ backend[OLLAMA_URLS[idx[h]]] = "down"
         /\ EarlierAllFailed(h) )
       => /\ OLLAMA_URL' = None
          /\ pc'[h] = "done"
          /\ resp'[h] = Response(503, None, "Ollama not available")
          /\ reply'[h] = NoReply
          /\ genSent'[h] = 0]_vars

\* C3 witness: a request has ended with the 503 of the locator, without a
\* generation request, and OLLAMA_URL is absent.
C3_Witness ==
  \E h \in Handlers :
    /\ pc[h] = "done" /\ genSent[h] = 0 /\ reply[h] = NoReply
    /\ resp[h] = Response(503, None, "Ollama not available")
    /\ OLLAMA_URL = None

\* C4 as claimed: a connection failure of a generation call ends the request
\* with a 503 and clears OLLAMA_URL, and the next request to arrive after the
\* failure runs the locator before it sends a generation request, under every
\* interleaving.
C4_NextCallAlwaysReprobes ==
  [][\A h \in Handlers :
       /\ PostYields(h, "connect") =>
            /\ OLLAMA_URL' = None
            /\ resp'[h] = Response(503, None, "Cannot connect to Ollama")
       /\ (Arrives(h) /\ connFailed) =>
            /\ pc'[h] = "probe" /\ locRuns'[h] = 1 /\ genSent'[h] = 0]_vars

\* C4 amended: a connection failure of a generation call ends the request
\* with a 503 and clears OLLAMA_URL; the next request to arrive after the
\* failure runs the locator before it sends a generation request if
\* OLLAMA_URL is still absent when it arrives.  A handler whose locator run
\* was pending at the failure may have set OLLAMA_URL again; the request then
\* sends its generation request to that URL without probing.
C4_NextCallReprobesIfStillAbsent ==
  [][\A h \in Handlers :
       /\ PostYields(h, "connect") =>
            /\ OLLAMA_URL' = None
            /\ resp'[h] = Response(503, None, "Cannot connect to Ollama")
       /\ (Arrives(h) /\ connFailed /\ OLLAMA_URL = None) =>
            /\ pc'[h] = "probe" /\ locRuns'[h] = 1 /\ genSent'[h] = 0
       /\ (Arrives(h) /\ connFailed /\ OLLAMA_URL # None) =>
            /\ pc'[h] = "post" /\ locRuns'[h] = 0
            /\ url'[h] = OLLAMA_URL]_vars

\* C4 witness: a request has failed on a connection error and the first
\* request to arrive since is running the locator.
C4_Witness ==
  \E h1, h2 \in Handlers :
    /\ pc[h1] = "done" /\ reply[h1].kind = "connect"
    /\ resp[h1].status = 503
    /\ pc[h2] = "probe" /\ locRuns[h2] = 1 /\ genSent[h2] = 0
    /\ ~connFailed

\* C5: the response of /summarize does not depend on what became of the usage
\* record: two requests whose generation calls yielded the same have the same
\* response, and a request whose record was not written is answered 200.
C5_RecorderNeverChangesResponse ==
  /\ \A h1, h2 \in Handlers :
       (pc[h1] = "done" /\ pc[h2] = "done" /\ reply[h1] = reply[h2])
         => resp[h1] = resp[h2]
  /\ \A h \in Handlers :
       (pc[h] = "done" /\ rec[h] \notin {"none", "saved"})
         => resp[h].status = 200 /\ rec[h] = "failed"

\* C5 witness: two requests got the same 200 from the backend, the record of
\* one was written and the record of the other was not.
C5_Witness ==
  \E h1, h2 \in Handlers :
    /\ pc[h1] = "done" /\ pc[h2] = "done"
    /\ reply[h1] = reply[h2] /\ reply[h1].status = 200
    /\ rec[h1] = "saved" /\ rec[h2] = "failed"

\* C6: a request sends at most one generation request and runs the locator at
\* most once: whatever the POST yields, the request ends in that step, without
\* another POST and without a locator run.
C6_NoRetry ==
  [][\A h \in Handlers :
       /\ genSent'[h] <= 1
       /\ locRuns'[h] <= 1
       /\ (pc[h] = "post" /\ Moves(h)) =>
            /\ pc'[h] = "done"
            /\ genSent'[h] = 1
       /\ (pc'[h] = "probe" /\ idx'[h] = 1 /\ Moves(h)) => pc[h] = "idle"]_vars

\* C6 witness: a request whose only generation request failed on a connection
\* error has ended.
C6_Witness ==
  \E h \in Handlers :
    pc[h] = "done" /\ reply[h].kind = "connect" /\ genSent[h] = 1

\* C7: GET /health answers healthy/healthy exactly when OLLAMA_URL is set and
\* degraded/unavailable exactly when it is absent; neither GET /health nor
\* GET / changes OLLAMA_URL or starts a probe.
C7_HealthReadsCacheOnly ==
  [][/\ lastGet'.ep = "/health" =>
          /\ (lastGet'.status = "healthy" /\ lastGet'.ollama = "healthy")
               <=> OLLAMA_URL # None
          /\ (lastGet'.status = "degraded" /\ lastGet'.ollama = "unavailable")
               <=> OLLAMA_URL = None
          /\ lastGet'.ollama_url = OLLAMA_URL
     /\ lastGet'.ep # "none" =>
          /\ OLLAMA_URL' = OLLAMA_URL
          /\ UNCHANGED << pc, idx, probes, genSent, locRuns >>]_vars

\* C7 witness: GET /health has just answered healthy while the cached backend
\* is down.
C7_Witness ==
  /\ lastGet.ep = "/health" /\ lastGet.status = "healthy"
  /\ OLLAMA_URL # None /\ backend[OLLAMA_URL] = "down"

\* C8: a generation call that times out ends the request with a 504 and
\* leaves OLLAMA_URL as it is.
C8_TimeoutKeepsUrl ==
  [][\A h \in Handlers :
       PostYields(h, "timeout") =>
         /\ resp'[h] = Response(504, None, "Ollama request timeout")
         /\ pc'[h] = "done"
         /\ OLLAMA_URL' = OLLAMA_URL]_vars

\* C8 witness: a request has ended with a 504 and OLLAMA_URL is still set.
C8_Witness ==
  \E h \in Handlers :
    /\ pc[h] = "done" /\ reply[h].kind = "timeout" /\ resp[h].status = 504
    /\ OLLAMA_URL # None

\* C9: when the generation request is answered 200 with a JSON object, the
\* request is answered 200 and its summary is the object's response field, or
\* the empty string when the object has no such field.
C9_SummaryIsResponseField ==
  \A h \in Handlers :
    ( /\ pc[h] = "done" /\ reply[h].kind = "response"
      /\ reply[h].status = 200 /\ reply[h].body.kind = "object" )
    => /\ resp[h].status = 200
       /\ resp[h].detail = None
       /\ \A f \in reply[h].body.fields :
            f[1] = "response" => resp[h].summary = f[2]
       /\ (\A f \in reply[h].body.fields : f[1] # "response")
            => resp[h].summary = ""

\* C9 witness: one request was answered with the text of the response field
\* and another, whose reply had no response field, with the empty summary.
C9_Witness ==
  \E h1, h2 \in Handlers :
    /\ pc[h1] = "done" /\ resp[h1] = Response(200, "X", None)
    /\ pc[h2] = "done" /\ resp[h2] = Response(200, "", None)
    /\ reply[h2].body.kind = "object"

\* The states of the candidates in which at least one is up.
LiveAssignments ==
  { b \in [Candidates -> BackendStates] : \E u \in Candidates : b[u] = "up" }

\* OLLAMA_URL is set, to a candidate that is in state s under b.
CachedIs(b, s) == IF OLLAMA_URL \in Candidates THEN b[OLLAMA_URL] = s ELSE FALSE

\* A request has just been answered 200.
Succeeded == \E h \in Handlers : pc[h] = "done" /\ resp[h].status = 200

\* C10: whenever the cached backend is dead and the candidates stay as they
\* are from then on, another one being up, OLLAMA_URL is eventually set to a
\* candidate that is up and a request is answered 200 after that.
C10_RecoversFromDeadBackend ==
  \A b \in LiveAssignments :
    []( (CachedIs(b, "down") /\ [](backend = b))
        => <>(CachedIs(b, "up") /\ <>Succeeded) )

\* C10 witness: a request failed on a connection error, the first candidate
\* is down, OLLAMA_URL is the second candidate, which is up, and another
\* request has been answered 200.
C10_Witness ==
  \E h1, h2 \in Handlers :
    /\ pc[h1] = "done" /\ reply[h1].kind = "connect"
    /\ pc[h2] = "done" /\ resp[h2].status = 200
    /\ backend[OLLAMA_URLS[1]] = "down"
    /\ OLLAMA_URL = OLLAMA_URLS[2] /\ backend[OLLAMA_URL] = "up"

\* C11: every step that takes OLLAMA_URL from set to absent is the step in
\* which a generation call fails on a connection error; no other step (the end
\* of a lazy locator run, a timeout, a non-success status, another fault, a
\* success, startup) makes a set OLLAMA_URL absent.
C11_OnlyConnectionFailureClears ==
  [][(OLLAMA_URL # None /\ OLLAMA_URL' = None)
       => \E h \in Handlers : PostYields(h, "connect")]_vars

\* The step in which the request in slot h sends its generation request.
SendsGeneration(h) == genSent'[h] > genSent[h]

\* C12: under every interleaving OLLAMA_URL is absent or a candidate; it is
\* set only by a locator run that returns, to the candidate whose probe has
\* just succeeded; and every generation request is built, in the step that
\* sends it, from the OLLAMA_URL of that moment, which is a candidate and not
\* absent, also when another handler clears OLLAMA_URL while the request is
\* in flight.
C12_GenerationOnlyToProbedCandidate ==
  [][/\ OLLAMA_URL \in Candidates \cup {None}
     /\ OLLAMA_URL' \in Candidates \cup {None}
     /\ (OLLAMA_URL' # OLLAMA_URL /\ OLLAMA_URL' # None) =>
          \E p \in Procs :
            /\ LocatorReturns(p)
            /\ OLLAMA_URL' = OLLAMA_URLS[idx[p]]
            /\ backend[OLLAMA_URLS[idx[p]]] = "up"
     /\ \A h \in Handlers :
          /\ SendsGeneration(h) =>
               /\ url'[h] \in Candidates
               /\ url'[h] = OLLAMA_URL'
               /\ pc'[h] = "post"
          /\ (pc[h] = "post" /\ pc'[h] = "post") => url'[h] = url[h]
          /\ pc'[h] = "post" => url'[h] \in Candidates]_vars

\* C12 witness: the generation request of one handler is in flight, built
\* from the cached URL, while the connection failure of another handler has
\* cleared OLLAMA_URL.
C12_Witness ==
  \E h1, h2 \in Handlers :
    /\ pc[h1] = "post" /\ url[h1] \in Candidates /\ genSent[h1] = 1
    /\ pc[h2] = "done" /\ reply[h2].kind = "connect"
    /\ OLLAMA_URL = None

\* The request in slot h has completed: its response is ready to be sent.
Completed(h) == pc[h] = "done"

\* C13 as claimed: every /summarize request increments REQUEST_COUNT exactly
\* once and, once it has completed, with a result or with an error, its
\* duration has been observed exactly once.
C13_CountedAndObservedOnce ==
  \A h \in Handlers :
    /\ pc[h] # "idle" => counted[h] = 1
    /\ Completed(h) => observed[h] = 1

\* C13 amended: every /summarize request increments REQUEST_COUNT exactly
\* once, on arrival; its duration is observed exactly once when it completes
\* with a result and is not observed when it completes with an error; it is
\* not observed before the request completes.
C13_CountedOnceObservedOnSuccess ==
  \A h \in Handlers :
    /\ pc[h] # "idle" => counted[h] = 1
    /\ pc[h] = "idle" => counted[h] = 0
    /\ (Completed(h) /\ resp[h].status = 200) => observed[h] = 1
    /\ (Completed(h) /\ resp[h].status # 200) => observed[h] = 0
    /\ ~Completed(h) => observed[h] = 0

\* C13 witness: one request has completed with a result, counted once and
\* observed once, and another has completed with an error, counted once and
\* not observed.
C13_Witness ==
  \E h1, h2 \in Handlers :
    /\ Completed(h1) /\ resp[h1].status = 200
    /\ counted[h1] = 1 /\ observed[h1] = 1
    /\ Completed(h2) /\ resp[h2].status = 504
    /\ counted[h2] = 1 /\ observed[h2] = 0

\* The generation succeeded: the POST yielded r, a 200 with a JSON object.
GenerationSucceeded(r) ==
  r.kind = "response" /\ r.status = 200 /\ r.body.kind = "object"

\* The Usage Recorder was invoked: v is what the request keeps of it.
Recorded(v) == v # "none"

\* C14: within a request the order is generation, usage record, response.
\* The Usage Recorder is not invoked while the locator or the generation
\* request is pending; in the step in which the request ends, it is invoked
\* (once: the record is written or the write fails) exactly when the POST has
\* yielded and the generation succeeded, and never when the generation
\* failed or no generation request was sent; what it did is fixed before the
\* response is sent.
C14_RecordAfterGenerationBeforeResponse ==
  [][\A h \in Handlers :
       /\ pc'[h] \in {"idle", "probe", "post"} => ~Recorded(rec'[h])
       /\ (pc[h] # "done" /\ pc'[h] = "done") =>
            /\ Recorded(rec'[h]) <=>
                 (pc[h] = "post" /\ GenerationSucceeded(reply'[h]))
            /\ Recorded(rec'[h]) =>
                 /\ rec'[h] \in {"saved", "failed"}
                 /\ resp'[h].status = 200
                 /\ genSent'[h] = 1
            /\ ~Recorded(rec'[h]) => resp'[h].status # 200
       /\ (pc[h] = "done" /\ pc'[h] = "done") =>
            (rec'[h] = rec[h] /\ resp'[h] = resp[h])
       /\ (pc[h] = "done" /\ pc'[h] # "done") => pc'[h] = "idle"]_vars

\* C14 witness: one request whose generation succeeded has its usage record
\* and its response ready, and another whose generation failed on a
\* non-success status has ended without a usage record.
C14_Witness ==
  \E h1, h2 \in Handlers :
    /\ pc[h1] = "done" /\ GenerationSucceeded(reply[h1])
    /\ reply[h1].kind = "response"
    /\ rec[h1] = "saved" /\ resp[h1].status = 200
    /\ pc[h2] = "done" /\ reply[h2].kind = "response"
    /\ reply[h2].status = 404 /\ rec[h2] = "none"

\* The OLLAMA_ERRORS labels the claim expects of a generation call whose POST
\* yielded r.
ExpectedErrors(r) ==
  CASE r.kind = "timeout" -> <<"timeout">>
    [] r.kind = "connect" -> <<"connection">>
    [] r.kind = "fault"   -> <<"other">>
    [] r.kind = "response" /\ r.status # 200 -> <<"http_error">>
    [] r.kind = "response" /\ r.status = 200 /\ r.body.kind # "object"
         -> <<"other">>
    [] OTHER -> <<>>

\* C15: a generation call that sent its request and failed increments exactly
\* one OLLAMA_ERRORS label, once, the one of its failure: http_error for a
\* non-success status, timeout, connection, other for any other fault; a
\* successful call and a call that ends with "Ollama not available" increment
\* none.
C15_OneErrorCounterPerFailure ==
  \A h \in Handlers :
    /\ pc[h] = "done" => errs[h] = ExpectedErrors(reply[h])
    /\ pc[h] # "done" => errs[h] = <<>>

====
